---- MODULE Spec2Model ----
(***************************************************************************)
(* Chest / loot lifecycle of src/src/game/game-state.ts (class GameState)  *)
(* together with the loot pool of src/src/game/asset-manager.ts.           *)
(*                                                                         *)
(* Representation                                                          *)
(*  - currentChest is the optional field `currentChest?: Chest`: the empty *)
(*    sequence when undefined, a one-element sequence holding the Chest    *)
(*    record otherwise.                                                    *)
(*  - THREE objects are identified by numbers: 0 is the chest body (with   *)
(*    its lid), 1.. are the loot clones in allocation order.               *)
(*  - lengths are in thousandths of a scene unit / radian, times are in    *)
(*    1/PathPoints of a millisecond so that duration / path.length of      *)
(*    followPathAnim is exact.                                             *)
(*  - TWEEN's registry is the sequence `tweens`, in start order; easing    *)
(*    curves are replaced by linear interpolation (same end points).       *)
(*  - Math.random() is a value r / RandDen with r in 0 .. RandDen - 1.     *)
(*  - the raycaster is a table from abstract pointer cells to the places   *)
(*    of the scene the ray passes through.                                 *)
(*  - audio playback, the camera orientation and the per-frame bobbing of  *)
(*    loot objects have no effect on the state modelled here.              *)
(***************************************************************************)
EXTENDS Integers, Sequences, FiniteSets, TLC

VARIABLES
  currentChest,   \* <<>> or <<Chest>>
  scene,          \* loot objects that are children of the THREE.Scene
  chestY,         \* chest.position.y
  lidRotation,    \* chestLid.rotation.x
  objs,           \* loot clones: id -> [name, pos, scale]
  materialMap,    \* model name -> texture of the (shared) mesh material
  tweens,         \* TWEEN registry: active tweens in start order
  mouseNdc,       \* pointer cell stored by the last handled mouse move
  outlined,       \* objects outlined by the render pipeline
  cursor,         \* document.body.style.cursor
  lightColor,     \* colour of the two chest rect lights
  chestCount,     \* number of chests generated so far
  models,         \* names of the loot models in assetManager.models
  lastEvent,      \* the entry point that ran last
  thrown,         \* the exception the last entry point ended with, "" if none
  pointer,        \* pointer cell of the last mousemove event dispatched
  app,            \* AppState and the rendered App: [pc, gameState, loaded, button]
  curve           \* <<>> or <<[from, to, points]>>: a getCurvePathTo call

\* the state of the program
pvars == <<currentChest, scene, chestY, lidRotation, objs, materialMap,
           tweens, mouseNdc, outlined, cursor, lightColor, chestCount,
           models>>

vars == <<pvars, lastEvent, thrown, pointer, app, curve>>

----------------------------------------------------------------------------
(* Bounds                                                                  *)

MaxChests == 2
MaxSeed == 2
FrameMs == 200
RandDen == 20

----------------------------------------------------------------------------
(* Program constants                                                       *)

rarities == <<"white", "green", "blue", "purple", "orange">>

COMMON == rarities[1]
LEGENDARY == rarities[5]

WEAPON == "WEAPON"
POTION == "POTION"
SHIELD == "SHIELD"
GOLD == "GOLD"

lootTypes == <<GOLD, POTION, SHIELD, WEAPON>>

LootCount == 3

lootMap ==
  [ty \in {WEAPON, POTION, SHIELD, GOLD} |->
     CASE ty = GOLD   -> <<"coins">>
       [] ty = POTION -> <<"potion-1", "potion-2", "potion-3">>
       [] ty = WEAPON -> <<"axe-1", "axe-2", "axe-3",
                           "sword-1", "sword-2", "sword-3",
                           "hammer-1", "hammer-2", "hammer-3">>
       [] ty = SHIELD -> <<"shield-1", "shield-2", "shield-3">>]

SeqRange(s) == {s[i] : i \in 1..Len(s)}

LootNames == UNION {SeqRange(lootMap[ty]) : ty \in DOMAIN lootMap}

ModelNames == LootNames \cup {"chest-body", "chest-lid"}

ChestObj == 0

chestPedestalY == 650
chestDropHeight == 4000
chestOffscreenY == 100000
lidOpenRotation == 0 - 2094
fullScale == 1000

PathDivisions == 10
PathPoints == PathDivisions + 1
UnitsPerMs == PathPoints

dropDuration == 350 * UnitsPerMs
openDuration == 500 * UnitsPerMs
lootRevealDuration == 500 * UnitsPerMs
\* the scale animation lasting twice the reveal
scaleDurationTwiceReveal == lootRevealDuration * 2

scaleDuration == lootRevealDuration \div 2
stepDuration == lootRevealDuration \div PathPoints

----------------------------------------------------------------------------
(* Random inputs                                                           *)

\* Math.floor(Math.random() * n), as a 1-based index, for Math.random() = r / RandDen
RandIndex(r, n) == ((r * n) \div RandDen) + 1

\* THREE.MathUtils.randInt(low, high) = low + floor(random * (high - low + 1))
randInt(r, low, high) == low + ((r * (high - low + 1)) \div RandDen)

RandVals == 0..(RandDen - 1)

\* The i-th value of the pseudo-random stream started from a seed
DrawAt(seed, i) == (seed * (2 * i + 1) + i * i + seed * seed * i) % RandDen

\* The values returned by the Math.random() calls of one generateRandomChest
\* call, grouped by the call site that consumes them
Draws(seed) ==
  [type   |-> [i \in 1..LootCount |-> DrawAt(seed, i)],
   name   |-> [i \in 1..LootCount |-> DrawAt(seed, LootCount + i)],
   tex    |-> [i \in 1..LootCount |-> DrawAt(seed, 2 * LootCount + i)],
   rarity |-> [i \in 1..LootCount |-> DrawAt(seed, 3 * LootCount + i)]]

SeedDraws == {Draws(seed) : seed \in 1..MaxSeed}

\* the least Math.random() value for which Math.floor(random * n) selects
\* the k-th of n entries
DrawFor(k, n) == CHOOSE r \in RandVals :
                   /\ RandIndex(r, n) = k
                   /\ \A q \in RandVals : RandIndex(q, n) = k => r <= q

\* the draws that generate the loot (Weapon, Rare), (Gold, Common),
\* (Potion, Epic)
ExampleDraws ==
  {[type   |-> <<DrawFor(4, Len(lootTypes)), DrawFor(1, Len(lootTypes)),
                 DrawFor(2, Len(lootTypes))>>,
    name   |-> [i \in 1..LootCount |-> 0],
    tex    |-> [i \in 1..LootCount |-> 0],
    rarity |-> <<DrawFor(3, Len(rarities)), DrawFor(1, Len(rarities)),
                 DrawFor(4, Len(rarities))>>]}

\* for one slot at a time, every combination of its type and name draws and
\* every combination of its texture and rarity draws, the other draws from
\* a seed
SlotDraws ==
  {[Draws(seed) EXCEPT !.type[i] = a, !.name[i] = b] :
     seed \in 1..MaxSeed, i \in 1..LootCount, a \in RandVals, b \in RandVals}
  \cup
  {[Draws(seed) EXCEPT !.tex[i] = a, !.rarity[i] = b] :
     seed \in 1..MaxSeed, i \in 1..LootCount, a \in RandVals, b \in RandVals}

\* every combination of the three rarity draws, the other draws from a seed
RarityDraws ==
  {[Draws(seed) EXCEPT !.rarity = rar] :
     seed \in 1..MaxSeed, rar \in [1..LootCount -> RandVals]}

----------------------------------------------------------------------------
(* Loot generator                                                          *)

\* rarities.findIndex((rarity) => item.rarity === rarity), 1-based
RarityIndex(r) == CHOOSE i \in 1..Len(rarities) : rarities[i] = r

\* the loop with the comparison made against the initial index instead of
\* the running highest: the last item above Common wins
RECURSIVE HighestRarityIndexLastWins(_, _)
HighestRarityIndexLastWins(items, highest) ==
  IF items = <<>> THEN highest
  ELSE LET index == RarityIndex(Head(items).rarity)
       IN HighestRarityIndexLastWins(Tail(items),
                                     IF index > 1 THEN index ELSE highest)

\* the loop of generateRandomChest that keeps the highest rarity index
RECURSIVE HighestRarityIndex(_, _)
HighestRarityIndex(items, highest) ==
  IF items = <<>> THEN highest
  ELSE LET index == RarityIndex(Head(items).rarity)
       IN HighestRarityIndex(Tail(items),
                             IF index > highest THEN index ELSE highest)

randomTypes(rnd) ==
  [i \in 1..LootCount |-> lootTypes[RandIndex(rnd.type[i], Len(lootTypes))]]

\* this.assetManager.lootMap.get(type) ?? ["coins"]: a type has an entry
\* once one of its models has been loaded
namesOf(type) ==
  LET loaded == SelectSeq(lootMap[type], LAMBDA n : n \in models)
  IN IF loaded = <<>> THEN <<"coins">> ELSE loaded

\* name of the model cloned for slot i
LootName(rnd, i) ==
  LET names == namesOf(randomTypes(rnd)[i])
  IN names[RandIndex(rnd.name[i], Len(names))]

\* the slots for which this.assetManager.models.get(name) is undefined
MissingSlots(rnd) == {i \in 1..LootCount : LootName(rnd, i) \notin models}

\* the texture choice without the exception for gold
TextureNameGoldRandom(rnd, i) ==
  CASE randInt(rnd.tex[i], 1, 4) = 1 -> "d1-atlas"
    [] randInt(rnd.tex[i], 1, 4) = 2 -> "d2-atlas"
    [] randInt(rnd.tex[i], 1, 4) = 3 -> "d3-atlas"
    [] OTHER -> "d4-atlas"

\* texture applied to the clone of slot i
TextureName(rnd, i) ==
  IF randomTypes(rnd)[i] = GOLD THEN "d1-atlas"
  ELSE CASE randInt(rnd.tex[i], 1, 4) = 1 -> "d1-atlas"
         [] randInt(rnd.tex[i], 1, 4) = 2 -> "d2-atlas"
         [] randInt(rnd.tex[i], 1, 4) = 3 -> "d3-atlas"
         [] OTHER -> "d4-atlas"

\* the generator with its slot loop running one time too many
GenLootItemsOneMore(rnd, base) ==
  [i \in 1..(LootCount + 1) |->
     [object |-> base + i,
      type   |-> lootTypes[RandIndex(rnd.type[((i - 1) % LootCount) + 1], Len(lootTypes))],
      rarity |-> rarities[RandIndex(rnd.rarity[((i - 1) % LootCount) + 1], Len(rarities))]]]

\* the lootItems array built by generateRandomChest; the clones get the
\* object ids base + 1 .. base + 3
GenLootItems(rnd, base) ==
  [i \in 1..LootCount |->
     [object |-> base + i,
      type   |-> randomTypes(rnd)[i],
      rarity |-> rarities[RandIndex(rnd.rarity[i], Len(rarities))]]]

\* the generator taking the rarity of the first item for the chest
generateRandomChestFirstItemRarity(rnd, base) ==
  LET lootItems == GenLootItems(rnd, base)
  IN [lootItems |-> lootItems,
      rarity    |-> lootItems[1].rarity,
      opened    |-> FALSE]

generateRandomChest(rnd, base) ==
  LET lootItems == GenLootItems(rnd, base)
  IN [lootItems |-> lootItems,
      rarity    |-> rarities[HighestRarityIndex(lootItems, 1)],
      opened    |-> FALSE]

\* applyModelTexture on the clones, in slot order: a clone shares the
\* material of its template, so the texture is set per model name
RECURSIVE ApplyTextures(_, _, _)
ApplyTextures(mm, rnd, i) ==
  IF i > LootCount THEN mm
  ELSE ApplyTextures([mm EXCEPT ![LootName(rnd, i)] = TextureName(rnd, i)],
                     rnd, i + 1)

\* applyModelTexture on the clones of the slots before slot k
TexturesBefore(mm, rnd, k) ==
  [n \in DOMAIN mm |->
     LET slots == {i \in 1..(k - 1) : LootName(rnd, i) = n}
     IN IF slots = {} THEN mm[n]
        ELSE TextureName(rnd, CHOOSE i \in slots : \A j \in slots : j <= i)]

\* the freshly cloned objects: at the origin, unit scale; tex is the texture
\* name passed to applyModelTexture for the clone
NewObjs(rnd) ==
  [i \in 1..LootCount |->
     [name |-> LootName(rnd, i), tex |-> TextureName(rnd, i),
      pos |-> 0 - 1, scale |-> fullScale]]

----------------------------------------------------------------------------
(* State after the GameState constructor                                   *)

\* the fields assigned by the constructor
GameStateFields ==
  /\ currentChest = <<>>
  /\ scene = {}
  /\ chestY = chestOffscreenY
  /\ lidRotation = 0
  /\ objs = <<>>
  /\ materialMap = [n \in ModelNames |->
                      IF n \in {"chest-body", "chest-lid"} THEN "d1-atlas"
                      ELSE "none"]
  /\ tweens = <<>>
  /\ mouseNdc = "centre"
  /\ outlined = {}
  /\ cursor = ""
  /\ lightColor = "0x00ff00"
  /\ chestCount = 0

\* AppState once loadGame has run to its end and App has rendered the
\* Next-chest button
AppReady == [pc |-> "done", gameState |-> TRUE, loaded |-> TRUE, button |-> TRUE]

\* for the loot models `loaded` by AssetManager.load
InitFor(loaded) ==
  /\ GameStateFields
  /\ models = loaded
  /\ lastEvent = "constructor"
  /\ thrown = ""
  /\ pointer = "centre"
  /\ app = AppReady
  /\ curve = <<>>

\* every loot model has been loaded
Init == InitFor(LootNames)

HasChest == currentChest # <<>>

Chest == currentChest[1]

\* the objects of a loot list, in list order
Objects(lootItems) == [i \in 1..Len(lootItems) |-> lootItems[i].object]

ObjectSet(lootItems) == {lootItems[i].object : i \in 1..Len(lootItems)}

CurrentLoot == IF HasChest THEN Chest.lootItems ELSE <<>>

----------------------------------------------------------------------------
(* Raycasting                                                              *)

\* Pointer cells: "centre" is where the camera looks (the chest, which the
\* camera follows while it drops), "arc" covers the loot while it flies,
\* "left", "mid" and "right" cover the three destination slots, "away"
\* covers nothing.
Ndc == {"centre", "arc", "left", "mid", "right", "away"}

SlotCell == <<"left", "mid", "right">>

\* the reveal slot (1 = left, 2 = mid, 3 = right) a clone is generated for
SlotOf(id) == ((id - 1) % LootCount) + 1

\* raycaster.intersectObject(this.chest): the chest is under the centre of
\* the view once the drop animation has turned the camera to it
IntersectsChest(ndc) == ndc = "centre" /\ chestY < chestDropHeight

\* raycaster.intersectObject(lootItem.object)
IntersectsLoot(ndc, id) ==
  /\ objs[id].scale > 0
  /\ objs[id].pos >= 0
  /\ IF objs[id].pos < lootRevealDuration
     THEN ndc = "arc"
     ELSE ndc = SlotCell[SlotOf(id)]

\* distance rank of a loot object along a ray that hits several of them:
\* all three fly at the same depth and height, the camera is at x = 0, so
\* the mid object is nearest, then the right one, then the left one
DistanceRank(id) == <<3, 1, 2>>[SlotOf(id)]

\* raycaster.intersectObjects(objects)[0].object, for a non-empty hit set
NearestHit(hits) ==
  CHOOSE id \in hits : \A other \in hits : DistanceRank(id) <= DistanceRank(other)

LootHits(ndc, lootItems) ==
  {id \in ObjectSet(lootItems) : IntersectsLoot(ndc, id)}

----------------------------------------------------------------------------
(* Tweens                                                                  *)

\* new TWEEN.Tween(target).to(..., duration).start(): the start value is
\* captured when the tween is started
Tween(kind, target, seg, from) ==
  [kind |-> kind, target |-> target, seg |-> seg, from |-> from, t |-> 0]

\* started right after chest.position.y is set to the drop height
chestDropAnim == Tween("drop", ChestObj, 0, chestDropHeight)

chestOpenAnim == Tween("open", ChestObj, 0, lidRotation)

\* the first of the chained waypoint tweens of followPathAnim
followPathAnim(id) == Tween("path", id, 0, 0)

scaleAnim(id) == Tween("scale", id, 0, 0)

Duration(tw) ==
  CASE tw.kind = "drop"  -> dropDuration
    [] tw.kind = "open"  -> openDuration
    [] tw.kind = "path"  -> stepDuration
    [] tw.kind = "scale" -> scaleDuration

Min(a, b) == IF a < b THEN a ELSE b

\* value of a tween running from `from` to `to`, `t` time units after its start
Interpolate(from, to, t, duration) ==
  IF t >= duration THEN to ELSE from + ((to - from) * t) \div duration

\* one tween written to its target, tween.update(); st = [y, rot, objs]
ApplyTween(tw, st) ==
  CASE tw.kind = "drop" ->
         [st EXCEPT !.y = Interpolate(tw.from, chestPedestalY, tw.t, dropDuration)]
    [] tw.kind = "open" ->
         [st EXCEPT !.rot = Interpolate(tw.from, lidOpenRotation, tw.t, openDuration)]
    [] tw.kind = "path" ->
         [st EXCEPT !.objs[tw.target].pos =
                       tw.seg * stepDuration + Min(tw.t, stepDuration)]
    [] tw.kind = "scale" ->
         [st EXCEPT !.objs[tw.target].scale =
                       Interpolate(tw.from, fullScale, tw.t, scaleDuration)]

\* the chain of followPathAnim linking every waypoint tween to the one
\* after the next
ChainedSkipsSegment(tw, dt) ==
  IF tw.kind = "path" /\ tw.seg + 2 < PathPoints
  THEN <<[tw EXCEPT !.seg = tw.seg + 2,
                    !.from = (tw.seg + 2) * stepDuration,
                    !.t = (tw.t - stepDuration) - dt]>>
  ELSE <<>>

\* the tweens chained to a tween that has completed, started at the time
\* the completed one ended
Chained(tw, dt) ==
  IF tw.kind = "path" /\ tw.seg + 1 < PathPoints
  THEN <<[tw EXCEPT !.seg = tw.seg + 1,
                    !.from = (tw.seg + 1) * stepDuration,
                    !.t = (tw.t - stepDuration) - dt]>>
  ELSE <<>>

\* one pass of TWEEN.update over the tweens `todo`: every tween advances by
\* dt and writes its target; completed tweens leave the registry and their
\* chained tweens are collected in `added`
RECURSIVE UpdatePass(_, _, _, _, _)
UpdatePass(todo, dt, kept, added, st) ==
  IF todo = <<>> THEN [kept |-> kept, added |-> added, st |-> st]
  ELSE LET tw   == [Head(todo) EXCEPT !.t = Head(todo).t + dt]
           done == tw.t >= Duration(tw)
       IN UpdatePass(Tail(todo), dt,
                     IF done THEN kept ELSE Append(kept, tw),
                     IF done THEN added \o Chained(tw, dt) ELSE added,
                     ApplyTween(tw, st))

\* TWEEN.update(): passes are repeated over the tweens added during the
\* update until none is added
RECURSIVE TweenUpdate(_, _, _, _)
TweenUpdate(todo, dt, kept, st) ==
  IF todo = <<>> THEN [tweens |-> kept, st |-> st]
  ELSE LET pass == UpdatePass(todo, dt, <<>>, <<>>, st)
       IN TweenUpdate(pass.added, dt, kept \o pass.kept, pass.st)

----------------------------------------------------------------------------
(* Handlers                                                                *)

\* nextChest without the removal of the remaining loot from the scene
AcceptNextChestKeepLoot(rnd) ==
  LET base  == LootCount * chestCount
      chest == generateRandomChest(rnd, base)
  IN /\ chestCount < MaxChests
     /\ scene' = scene
     /\ currentChest' = <<chest>>
     /\ objs' = objs \o NewObjs(rnd)
     /\ materialMap' = ApplyTextures(materialMap, rnd, 1)
     /\ lightColor' = chest.rarity
     /\ chestY' = chestDropHeight
     /\ lidRotation' = 0
     /\ tweens' = Append(tweens, chestDropAnim)
     /\ chestCount' = chestCount + 1
     /\ UNCHANGED <<mouseNdc, outlined, cursor, models>>

\* cleanupCurrentChest followed by the rest of nextChest, for the random
\* draws rnd
AcceptNextChest(rnd) ==
  LET base  == LootCount * chestCount
      chest == generateRandomChest(rnd, base)
  IN /\ chestCount < MaxChests
     /\ scene' = scene \ ObjectSet(CurrentLoot)
     /\ currentChest' = <<chest>>
     /\ objs' = objs \o NewObjs(rnd)
     /\ materialMap' = ApplyTextures(materialMap, rnd, 1)
     /\ lightColor' = chest.rarity
     /\ chestY' = chestDropHeight
     /\ lidRotation' = 0
     /\ tweens' = Append(tweens, chestDropAnim)
     /\ chestCount' = chestCount + 1
     /\ UNCHANGED <<mouseNdc, outlined, cursor, models>>

\* nextChest() up to the TypeError of `models.get(name).clone()` for the
\* first slot whose model is missing: cleanupCurrentChest has run, the
\* clones made for the earlier slots are dropped
FailNextChest(rnd) ==
  LET k == CHOOSE i \in MissingSlots(rnd) : \A j \in MissingSlots(rnd) : i <= j
  IN /\ scene' = scene \ ObjectSet(CurrentLoot)
     /\ currentChest' = <<>>
     /\ lidRotation' = 0
     /\ materialMap' = TexturesBefore(materialMap, rnd, k)
     /\ UNCHANGED <<chestY, objs, tweens, mouseNdc, outlined, cursor,
                    lightColor, chestCount, models>>

\* nextChest() without its guard on the unopened chest
nextChestFromUnguarded(draws) ==
  \E rnd \in draws : AcceptNextChest(rnd) /\ thrown' = ""

\* nextChest(), the random draws of the generator taken from `draws`
nextChestFrom(draws) ==
  IF HasChest /\ ~Chest.opened
  THEN UNCHANGED pvars /\ thrown' = ""
  ELSE \E rnd \in draws :
         IF MissingSlots(rnd) = {}
         THEN AcceptNextChest(rnd) /\ thrown' = ""
         ELSE FailNextChest(rnd) /\ thrown' = "TypeError"

nextChest ==
  /\ lastEvent' = "nextChest"
  /\ pointer' = pointer
  /\ app' = app
  /\ curve' = curve
  /\ nextChestFrom(SeedDraws)

\* openChest with the opened flag left for the end of the animation
openChestFlagNotSet ==
  IF ~HasChest THEN UNCHANGED pvars
  ELSE LET lootObjects == Chest.lootItems
           revealed    == {lootObjects[i].object : i \in 1..LootCount}
       IN /\ currentChest' = currentChest
          /\ objs' = [id \in DOMAIN objs |->
                        IF id \in revealed
                        THEN [objs[id] EXCEPT !.pos = 0, !.scale = 0]
                        ELSE objs[id]]
          /\ scene' = scene \cup ObjectSet(lootObjects)
          /\ tweens' = tweens
                         \o <<chestOpenAnim>>
                         \o [i \in 1..LootCount |-> followPathAnim(lootObjects[i].object)]
                         \o [i \in 1..LootCount |-> scaleAnim(lootObjects[i].object)]
          /\ UNCHANGED <<chestY, lidRotation, materialMap, mouseNdc, outlined,
                         cursor, lightColor, chestCount, models>>

openChest ==
  IF ~HasChest THEN UNCHANGED pvars
  ELSE LET lootObjects == Chest.lootItems
           revealed    == {lootObjects[i].object : i \in 1..LootCount}
       IN /\ currentChest' = <<[Chest EXCEPT !.opened = TRUE]>>
          /\ objs' = [id \in DOMAIN objs |->
                        IF id \in revealed
                        THEN [objs[id] EXCEPT !.pos = 0, !.scale = 0]
                        ELSE objs[id]]
          /\ scene' = scene \cup ObjectSet(lootObjects)
          /\ tweens' = tweens
                         \o <<chestOpenAnim>>
                         \o [i \in 1..LootCount |-> followPathAnim(lootObjects[i].object)]
                         \o [i \in 1..LootCount |-> scaleAnim(lootObjects[i].object)]
          /\ UNCHANGED <<chestY, lidRotation, materialMap, mouseNdc, outlined,
                         cursor, lightColor, chestCount, models>>

\* lootItems.splice(index): everything from the index on is removed
SpliceToEnd(lootItems, index) ==
  [i \in 1..(index - 1) |-> lootItems[i]]

\* lootItems.splice(index, 1)
Splice(lootItems, index) ==
  [i \in 1..(Len(lootItems) - 1) |->
     IF i < index THEN lootItems[i] ELSE lootItems[i + 1]]

\* pickupLootItem that drops the chest when its last item is taken
pickupLootItemDropsEmptyChest(item, index) ==
  /\ scene' = scene \ {item.object}
  /\ currentChest' =
       IF Len(Chest.lootItems) = 1 THEN <<>>
       ELSE <<[Chest EXCEPT !.lootItems = Splice(Chest.lootItems, index)]>>
  /\ UNCHANGED <<chestY, lidRotation, objs, materialMap, tweens, mouseNdc,
                 outlined, cursor, lightColor, chestCount, models>>

\* pickupLootItem without scene.remove
pickupLootItemStaysInScene(item, index) ==
  /\ scene' = scene
  /\ currentChest' = <<[Chest EXCEPT !.lootItems = Splice(Chest.lootItems, index)]>>
  /\ UNCHANGED <<chestY, lidRotation, objs, materialMap, tweens, mouseNdc,
                 outlined, cursor, lightColor, chestCount, models>>

\* pickupLootItem that derives the chest rarity again from what is left
pickupLootItemRecomputesRarity(item, index) ==
  LET rest == Splice(Chest.lootItems, index)
  IN /\ scene' = scene \ {item.object}
     /\ currentChest' = <<[Chest EXCEPT !.lootItems = rest,
                                        !.rarity = rarities[HighestRarityIndex(rest, 1)]]>>
     /\ UNCHANGED <<chestY, lidRotation, objs, materialMap, tweens, mouseNdc,
                    outlined, cursor, lightColor, chestCount, models>>

pickupLootItem(item, index) ==
  /\ scene' = scene \ {item.object}
  /\ currentChest' = <<[Chest EXCEPT !.lootItems = Splice(Chest.lootItems, index)]>>
  /\ UNCHANGED <<chestY, lidRotation, objs, materialMap, tweens, mouseNdc,
                 outlined, cursor, lightColor, chestCount, models>>

\* the mousemove listener without its early return when there is no chest
onMouseMoveWithoutChestGuard(e) ==
  /\ mouseNdc' = e
  /\ IF ~HasChest
     THEN outlined' = {} /\ cursor' = "default"
     ELSE IF ~Chest.opened
          THEN IF IntersectsChest(e)
               THEN outlined' = {ChestObj} /\ cursor' = "pointer"
               ELSE outlined' = {} /\ cursor' = "default"
          ELSE LET hits == LootHits(e, Chest.lootItems)
               IN IF Len(Chest.lootItems) > 0 /\ hits # {}
                  THEN outlined' = {NearestHit(hits)} /\ cursor' = "pointer"
                  ELSE outlined' = {} /\ cursor' = "default"
  /\ UNCHANGED <<currentChest, scene, chestY, lidRotation, objs,
                 materialMap, tweens, lightColor, chestCount, models>>

\* the mousemove listener, for a pointer event over cell e
onMouseMove(e) ==
  IF ~HasChest THEN UNCHANGED pvars
  ELSE /\ mouseNdc' = e
       /\ IF ~Chest.opened
          THEN IF IntersectsChest(e)
               THEN outlined' = {ChestObj} /\ cursor' = "pointer"
               ELSE outlined' = {} /\ cursor' = "default"
          ELSE LET hits == LootHits(e, Chest.lootItems)
               IN IF Len(Chest.lootItems) > 0 /\ hits # {}
                  THEN outlined' = {NearestHit(hits)} /\ cursor' = "pointer"
                  ELSE outlined' = {} /\ cursor' = "default"
       /\ UNCHANGED <<currentChest, scene, chestY, lidRotation, objs,
                      materialMap, tweens, lightColor, chestCount, models>>

\* index of the nearest loot item that the ray hits; 0 if none
NearestHitIndex(ndc, lootItems) ==
  LET hit == {i \in 1..Len(lootItems) : IntersectsLoot(ndc, lootItems[i].object)}
  IN IF hit = {} THEN 0
     ELSE CHOOSE i \in hit :
            lootItems[i].object = NearestHit({lootItems[j].object : j \in hit})

\* index of the first loot item, in list order, that the ray hits; 0 if none
FirstHitIndex(ndc, lootItems) ==
  LET hit == {i \in 1..Len(lootItems) : IntersectsLoot(ndc, lootItems[i].object)}
  IN IF hit = {} THEN 0 ELSE CHOOSE i \in hit : \A j \in hit : i <= j

\* the mousedown listener testing the chest whether it is opened or not
onMouseClickChestAlways ==
  IF IntersectsChest(mouseNdc) THEN openChest
  ELSE IF ~HasChest \/ ~Chest.opened THEN UNCHANGED pvars
  ELSE LET index == FirstHitIndex(mouseNdc, Chest.lootItems)
       IN IF index = 0 THEN UNCHANGED pvars
          ELSE pickupLootItem(Chest.lootItems[index], index)

\* the mousedown listener: the ray is rebuilt from the stored mouseNdc
onMouseClick ==
  IF ~HasChest \/ ~Chest.opened
  THEN IF IntersectsChest(mouseNdc) THEN openChest ELSE UNCHANGED pvars
  ELSE LET index == FirstHitIndex(mouseNdc, Chest.lootItems)
       IN IF index = 0 THEN UNCHANGED pvars
          ELSE pickupLootItem(Chest.lootItems[index], index)

\* one animation frame, dt after the previous one
update(dt) ==
  LET r == TweenUpdate(tweens, dt, <<>>,
                       [y |-> chestY, rot |-> lidRotation, objs |-> objs])
  IN /\ tweens' = r.tweens
     /\ chestY' = r.st.y
     /\ lidRotation' = r.st.rot
     /\ objs' = r.st.objs
     /\ UNCHANGED <<currentChest, scene, materialMap, mouseNdc, outlined,
                    cursor, lightColor, chestCount, models>>

MouseMove ==
  /\ lastEvent' = "mousemove"
  /\ thrown' = ""
  /\ app' = app
  /\ curve' = curve
  /\ \E e \in Ndc : pointer' = e /\ onMouseMove(e)

\* a click happens where the pointer is
MouseDown ==
  /\ lastEvent' = "mousedown"
  /\ thrown' = ""
  /\ pointer' = pointer
  /\ app' = app
  /\ curve' = curve
  /\ onMouseClick

Frame ==
  /\ lastEvent' = "frame"
  /\ thrown' = ""
  /\ pointer' = pointer
  /\ app' = app
  /\ curve' = curve
  /\ update(FrameMs * UnitsPerMs)

Next ==
  \/ nextChest
  \/ MouseMove
  \/ MouseDown
  \/ Frame

Spec == Init /\ [][Next]_vars

\* Loot generation alone, over every combination of rarity draws
nextChestAnyRarity ==
  /\ lastEvent' = "nextChest"
  /\ pointer' = pointer
  /\ app' = app
  /\ curve' = curve
  /\ nextChestFrom(RarityDraws)

NextGen == nextChestAnyRarity

SpecGen == Init /\ [][NextGen]_vars

----------------------------------------------------------------------------
(* Application start: AppState, AssetManager.load and the rendered App     *)

\* the loot models in the order loadModels requests them
LoadOrder == lootMap[GOLD] \o lootMap[POTION] \o lootMap[WEAPON] \o lootMap[SHIELD]

\* State after `new AppState()` and the first render of App: the load
\* timer is pending and no model is loaded.  The GameState does not exist
\* while app.gameState is FALSE; its fields are written with the values
\* its constructor gives them.
InitApp ==
  /\ GameStateFields
  /\ models = {}
  /\ lastEvent = "AppState"
  /\ thrown = ""
  /\ pointer = "centre"
  /\ app = [pc |-> "timer", gameState |-> FALSE, loaded |-> FALSE,
            button |-> FALSE]
  /\ curve = <<>>

\* setTimeout(() => this.loadGame(), 10): loadGame runs up to its await
TimerFires ==
  /\ app.pc = "timer"
  /\ app' = [app EXCEPT !.pc = "loading"]
  /\ lastEvent' = "loadGame"
  /\ UNCHANGED <<pvars, thrown, pointer, curve>>

\* a loader callback adds the next model (every load succeeds here; failed
\* loads are the subject of SpecPool); the loading manager calls onLoad
\* after the last one, which resolves the promise of load()
AssetLoaded ==
  /\ app.pc = "loading"
  /\ models # LootNames
  /\ models' = models \cup {LoadOrder[Cardinality(models) + 1]}
  /\ app' = [app EXCEPT !.pc = IF models' = LootNames THEN "resolved"
                                ELSE "loading"]
  /\ lastEvent' = "addLootModel"
  /\ UNCHANGED <<currentChest, scene, chestY, lidRotation, objs, materialMap,
                 tweens, mouseNdc, outlined, cursor, lightColor, chestCount,
                 thrown, pointer, curve>>

\* loadGame without the await on load()
LoadGameWithoutAwait ==
  /\ app.pc = "loading"
  /\ app' = [app EXCEPT !.pc = "done", !.gameState = TRUE, !.loaded = TRUE]
  /\ lastEvent' = "constructor"
  /\ UNCHANGED <<pvars, thrown, pointer, curve>>

\* loadGame after its await: the GameState is constructed, then loaded is
\* set, in one synchronous run
LoadGameResumes ==
  /\ app.pc = "resolved"
  /\ app' = [app EXCEPT !.pc = "done", !.gameState = TRUE, !.loaded = TRUE]
  /\ lastEvent' = "constructor"
  /\ UNCHANGED <<pvars, thrown, pointer, curve>>

\* App re-rendered by its observer: the button is there iff loaded
Render ==
  /\ app.button # app.loaded
  /\ app' = [app EXCEPT !.button = app.loaded]
  /\ lastEvent' = "render"
  /\ UNCHANGED <<pvars, thrown, pointer, curve>>

\* the onClick of NextChestButton: appState.gameState?.nextChest()
ClickNextChestButton ==
  /\ app.button
  /\ IF app.gameState THEN nextChest
     ELSE /\ lastEvent' = "onClick"
          /\ UNCHANGED <<pvars, thrown, pointer, app, curve>>

\* the listeners and the frame loop exist once the constructor has run
AppMouseMove == app.gameState /\ MouseMove

AppMouseDown == app.gameState /\ MouseDown

AppFrame == app.gameState /\ Frame

NextApp ==
  \/ TimerFires
  \/ AssetLoaded
  \/ LoadGameResumes
  \/ Render
  \/ ClickNextChestButton
  \/ AppMouseMove
  \/ AppMouseDown
  \/ AppFrame

SpecApp == InitApp /\ [][NextApp]_vars

----------------------------------------------------------------------------
(* getCurvePathTo: vectors are <<x, y>> in halves of a scene unit, the     *)
(* points of the curve in 1/125 of that (the weights of getPoints(10) over *)
(* two segments are fifths, the spline is cubic); a computed coordinate is *)
(* a record [nan, v]                                                       *)

MaxCoord == 4

PointScale == 125

\* the height by which the mid point is raised, mid.y += 2, in halves
midRaise == 4

\* argument vectors with whole scene coordinates
Vectors == {<<2 * x, 2 * y>> : x \in 0..1, y \in 0..MaxCoord}

\* the centripetal knot interval Math.pow(p.distanceToSquared(q), 0.25) of
\* two control points, up to whether it is below the 1e-4 of the check for
\* repeated points
dtOf(p, q) == IF p = q THEN "zero" ELSE "positive"

\* the curve without `if (dt1 < 1e-4) dt1 = 1.0`
SafeDt1Unchecked(dt1) == dt1

\* if (dt1 < 1e-4) dt1 = 1.0
SafeDt1(dt1) == IF dt1 = "zero" THEN "positive" ELSE dt1

\* if (dt0 < 1e-4) dt0 = dt1, and the same for dt2
SafeDt(dt, dt1) == IF dt = "zero" THEN dt1 ELSE dt

\* the tangent values the spline may be given: the knot intervals are
\* irrational, so a tangent is any of these values, NaN when a division by
\* a zero interval is involved (the dividend is then 0 as well)
TangentVals == {0 - 1, 1}

Tangents == [0..1 -> [1..2 -> TangentVals \X TangentVals]]

NaN == [nan |-> TRUE, v |-> 0]

Number(v) == [nan |-> FALSE, v |-> v]

\* CubicPoly.calc(weight) for weight = j / 5, times PointScale, after
\* init(x1, x2, t1, t2)
CubicPoly(x1, x2, t1, t2, j) ==
  LET c0 == x1
      c1 == t1
      c2 == ((0 - 3) * x1 + 3 * x2) - 2 * t1 - t2
      c3 == (2 * x1 - 2 * x2) + t1 + t2
  IN 125 * c0 + 25 * c1 * j + 5 * c2 * j * j + c3 * j * j * j

\* CatmullRomCurve3.getPoint(k / PathDivisions) for the three control
\* points pts
getPoint(pts, k, tans) ==
  LET l        == Len(pts)
      p        == (l - 1) * k
      atEnd    == p % PathDivisions = 0 /\ p \div PathDivisions = l - 1
      intPoint == IF atEnd THEN l - 2 ELSE p \div PathDivisions
      j        == IF atEnd THEN 5 ELSE ((p % PathDivisions) * 5) \div PathDivisions
      p1       == pts[intPoint + 1]
      p2       == pts[intPoint + 2]
      p0       == IF intPoint > 0 THEN pts[intPoint]
                  ELSE <<2 * pts[1][1] - pts[2][1], 2 * pts[1][2] - pts[2][2]>>
      p3       == IF intPoint + 2 < l THEN pts[intPoint + 3]
                  ELSE <<2 * pts[l][1] - pts[l - 1][1],
                         2 * pts[l][2] - pts[l - 1][2]>>
      dt1      == SafeDt1(dtOf(p1, p2))
      dt0      == SafeDt(dtOf(p0, p1), dt1)
      dt2      == SafeDt(dtOf(p2, p3), dt1)
      finite   == "zero" \notin {dt0, dt1, dt2}
  IN [c \in 1..2 |->
        IF finite
        THEN Number(CubicPoly(p1[c], p2[c], tans[intPoint][c][1],
                              tans[intPoint][c][2], j))
        ELSE NaN]

\* curve.getPoints(PathDivisions)
getPoints(pts, tans) ==
  [i \in 1..(PathDivisions + 1) |-> getPoint(pts, i - 1, tans)]

\* to.clone().sub(from).multiplyScalar(0.5).add(from), then mid.y += 2
midPoint(from, to) ==
  <<(to[1] - from[1]) \div 2 + from[1],
    (to[2] - from[2]) \div 2 + from[2] + midRaise>>

getCurvePathTo(from, to, tans) == getPoints(<<from, midPoint(from, to), to>>, tans)

\* one call of getCurvePathTo, on any two vectors
CallGetCurvePathTo ==
  /\ curve = <<>>
  /\ \E from \in Vectors, to \in Vectors, tans \in Tangents :
       curve' = <<[from |-> from, to |-> to,
                   points |-> getCurvePathTo(from, to, tans)]>>
  /\ lastEvent' = "getCurvePathTo"
  /\ UNCHANGED <<pvars, thrown, pointer, app>>

NextCurve == CallGetCurvePathTo

SpecCurve == Init /\ [][NextCurve]_vars

\* The lifecycle over model maps in which loads have failed: the loading
\* manager reports completion whether or not every model was loaded
Pools == {LootNames, LootNames \ {"coins"}, {}}

InitPool == \E loaded \in Pools : InitFor(loaded)

SpecPool == InitPool /\ [][Next]_vars

\* Loot generation slot by slot, with every model loaded or with the potion
\* models missing
SlotPools == {LootNames, LootNames \ SeqRange(lootMap[POTION])}

InitSlots == \E loaded \in SlotPools : InitFor(loaded)

nextChestAnySlot ==
  /\ lastEvent' = "nextChest"
  /\ pointer' = pointer
  /\ app' = app
  /\ curve' = curve
  /\ nextChestFrom(SlotDraws)

NextSlots == nextChestAnySlot

SpecSlots == InitSlots /\ [][NextSlots]_vars

\* The lifecycle of the chest with loot (Weapon, Rare), (Gold, Common),
\* (Potion, Epic)
nextChestExample ==
  /\ lastEvent' = "nextChest"
  /\ pointer' = pointer
  /\ app' = app
  /\ curve' = curve
  /\ nextChestFrom(ExampleDraws)

NextExample ==
  \/ nextChestExample
  \/ MouseMove
  \/ MouseDown
  \/ Frame

SpecExample == Init /\ [][NextExample]_vars

----------------------------------------------------------------------------
(* Properties                                                              *)

\* which entry point a step is
NextChestStep == lastEvent' = "nextChest"
MoveStep == lastEvent' = "mousemove"
ClickStep == lastEvent' = "mousedown"

Unopened == HasChest /\ ~Chest.opened
Opened == HasChest /\ Chest.opened

\* the tweens a step has started (tweens are started by appending them)
StartedTweens ==
  IF Len(tweens') > Len(tweens)
  THEN {tweens'[i] : i \in (Len(tweens) + 1)..Len(tweens')}
  ELSE {}

DropInFlight == \E i \in 1..Len(tweens) : tweens[i].kind = "drop"

OpenInFlight == \E i \in 1..Len(tweens) : tweens[i].kind = "open"

\* the loot objects created so far
Allocated == 1..(LootCount * chestCount)

\* C1: nextChest() called while the current chest exists and is unopened
\* changes nothing: same chest, same loot list, rarity and opened flag,
\* nothing removed from the scene and no drop animation started.
C1_NextChestIgnoredWhileUnopened ==
  [][(NextChestStep /\ Unopened) =>
       /\ currentChest' = currentChest
       /\ scene' = scene
       /\ tweens' = tweens
       /\ UNCHANGED pvars]_vars

\* a nextChest() call was made on an unopened chest whose drop had already
\* advanced, i.e. a second call after the one that created the chest
C1_Witness ==
  /\ lastEvent = "nextChest"
  /\ Unopened
  /\ chestY < chestDropHeight
  /\ Len(Chest.lootItems) = LootCount

\* C2: nextChest() is accepted exactly when there is no chest or the chest
\* is opened, whatever loot it still holds; when accepted, the loot still in
\* the old list is out of the scene and the current chest is a new,
\* unopened chest with new loot objects.
C2_NextChestAcceptedIffNoneOrOpened ==
  [][NextChestStep =>
       IF Unopened
       THEN chestCount' = chestCount /\ currentChest' = currentChest
       ELSE /\ chestCount' = chestCount + 1
            /\ HasChest'
            /\ ~Chest'.opened
            /\ ObjectSet(CurrentLoot) \cap scene' = {}
            /\ ObjectSet(Chest'.lootItems) \cap Allocated = {}
            /\ ObjectSet(Chest'.lootItems) \cap scene' = {}]_vars

\* the second chest was accepted while the first, opened chest still held
\* all its loot in the scene (its loot had not grown from scale 0 yet, so
\* none could have been picked up), and the scene is now empty
C2_Witness ==
  /\ lastEvent = "nextChest"
  /\ chestCount = 2
  /\ Unopened
  /\ chestY = chestDropHeight
  /\ \A id \in 1..LootCount : objs[id].pos = 0 /\ objs[id].scale = 0
  /\ scene = {}

\* C3: the rarity of a generated chest is the rarity of highest ordinal
\* among its three items, for every combination of item rarities.
C3_ChestRarityIsMaxItemRarity ==
  Unopened =>
    LET items == Chest.lootItems
    IN /\ \E i \in 1..Len(items) : items[i].rarity = Chest.rarity
       /\ \A i \in 1..Len(items) :
            RarityIndex(items[i].rarity) <= RarityIndex(Chest.rarity)

\* item rarities [Common, Legendary, Rare] give a Legendary chest
C3_Witness ==
  /\ Unopened
  /\ [i \in 1..Len(Chest.lootItems) |-> Chest.lootItems[i].rarity]
       = <<"white", "orange", "blue">>
  /\ Chest.rarity = "orange"

\* C4: a generated chest has exactly 3 loot items, and the loot list of the
\* current chest never has more than 3.
C4_LootListLength ==
  HasChest =>
    /\ Len(Chest.lootItems) \in 0..3
    /\ ~Chest.opened => Len(Chest.lootItems) = 3

\* the second chest, opened and emptied by three pickups
C4_Witness ==
  /\ Opened
  /\ Len(Chest.lootItems) = 0
  /\ chestCount = 2

\* the indices of the loot items of the current chest that the ray of the
\* stored pointer position hits
HitIndices ==
  {i \in 1..Len(CurrentLoot) : IntersectsLoot(mouseNdc, CurrentLoot[i].object)}

\* a click on the opened chest whose ray hits at least one remaining item
PickupStep == ClickStep /\ Opened /\ HitIndices # {}

\* the loot list after the step is the list before it without index i
RemovedAt(i) ==
  /\ HasChest'
  /\ Len(Chest'.lootItems) = Len(Chest.lootItems) - 1
  /\ \A j \in 1..Len(Chest'.lootItems) :
       Chest'.lootItems[j] = Chest.lootItems[IF j < i THEN j ELSE j + 1]

\* C5: a click that hits a loot item of the opened chest removes exactly one
\* item, one that the ray hit, from the list and from the scene; the others
\* keep their order, stay in the scene and are not moved; an object that has
\* left the loot list never comes back into it, so it is never tested again.
C5_PickupRemovesExactlyOne ==
  [][/\ PickupStep =>
          \E i \in HitIndices :
            /\ RemovedAt(i)
            /\ scene' = scene \ {Chest.lootItems[i].object}
            /\ objs' = objs
     /\ \A id \in Allocated :
          id \notin ObjectSet(CurrentLoot) => id \notin ObjectSet(CurrentLoot')
    ]_vars

\* the last event is a click, two items remain, both in the scene, and the
\* stored ray still hits one: had the click missed, it would miss now
C5_Witness ==
  /\ lastEvent = "mousedown"
  /\ Opened
  /\ Len(Chest.lootItems) = 2
  /\ scene = ObjectSet(Chest.lootItems)
  /\ Cardinality(scene) = 2
  /\ HitIndices # {}

\* the lid, loot path and loot scale tweens that openChest starts
IsOpenAnim(tw) == tw.kind \in {"open", "path", "scale"}

\* C6: the open transition fires at most once per chest: open animations are
\* started only by a click on an unopened chest, in the step that sets
\* opened; the flag stays set as long as the chest is current; a click on an
\* opened chest starts no animation, resets no loot object and adds nothing
\* to the scene.
C6_OpenAtMostOnce ==
  [][/\ (\E tw \in StartedTweens : IsOpenAnim(tw)) =>
          ClickStep /\ Unopened /\ Opened' /\ chestCount' = chestCount
     /\ (Opened /\ chestCount' = chestCount) => Opened'
     /\ (ClickStep /\ Opened) =>
          /\ tweens' = tweens
          /\ objs' = objs
          /\ scene' \subseteq scene
          /\ lidRotation' = lidRotation
    ]_vars

\* a click with the pointer on the chest while the lid animation of the
\* opened chest is in flight and all loot is still there
C6_Witness ==
  /\ lastEvent = "mousedown"
  /\ Opened
  /\ mouseNdc = "centre"
  /\ Len(Chest.lootItems) = LootCount
  /\ \E i \in 1..Len(tweens) : tweens[i].kind = "open" /\ tweens[i].t > 0

\* C7: between an accepted nextChest() and the completion of its drop
\* animation no pointer move outlines the chest and no click opens it.
C7_NoInteractionWhileDropping ==
  [][DropInFlight =>
       /\ MoveStep => ChestObj \notin outlined'
       /\ ClickStep => (Unopened => Unopened')
    ]_vars

\* C8: the opened flag alone chooses the hit-test targets: on an unopened
\* chest a move outlines at most the chest and a click picks nothing up; on
\* an opened chest a move outlines at most one item of the loot list and a
\* click never opens the chest again.
C8_TargetsChosenByOpenedFlag ==
  [][/\ (MoveStep /\ Unopened) =>
          outlined' \subseteq {ChestObj} /\ Chest'.lootItems = Chest.lootItems
     /\ (ClickStep /\ Unopened) =>
          Chest'.lootItems = Chest.lootItems /\ scene \subseteq scene'
     /\ (MoveStep /\ Opened) =>
          outlined' \subseteq ObjectSet(Chest.lootItems) /\ currentChest' = currentChest
     /\ (ClickStep /\ Opened) =>
          /\ \A tw \in StartedTweens : ~IsOpenAnim(tw)
          /\ Opened'
          /\ scene' \subseteq scene
    ]_vars

\* a pointer move over an opened chest has outlined a loot item of the list
C8_Witness ==
  /\ lastEvent = "mousemove"
  /\ Opened
  /\ outlined # {}
  /\ outlined \subseteq ObjectSet(Chest.lootItems)
  /\ cursor = "pointer"

\* the smallest element of a non-empty set of indices
Lowest(S) == CHOOSE i \in S : \A j \in S : i <= j

\* C9: a click on an opened chest picks up at most one item: the hit item of
\* lowest index in the loot list when the ray hits some, none otherwise.
C9_ClickPicksLowestHitIndex ==
  [][(ClickStep /\ Opened) =>
       IF HitIndices = {}
       THEN currentChest' = currentChest /\ scene' = scene
       ELSE /\ RemovedAt(Lowest(HitIndices))
            /\ scene' = scene \ {Chest.lootItems[Lowest(HitIndices)].object}
    ]_vars

\* after a click the loot of the second and third slot remains and the ray
\* still hits both: the click hit all three in flight and took the first of
\* the list, the left one, which is the farthest of the three
C9_Witness ==
  /\ lastEvent = "mousedown"
  /\ Opened
  /\ chestCount = 1
  /\ Objects(Chest.lootItems) = <<2, 3>>
  /\ Cardinality(HitIndices) = 2
  /\ DistanceRank(1) > DistanceRank(2)

\* C10: once the last loot item is picked up the chest stays current, opened
\* and empty until a nextChest() call replaces it; meanwhile a pointer move
\* outlines nothing and a click changes nothing.
C10_EmptyChestStaysCurrent ==
  [][/\ (PickupStep /\ Len(Chest.lootItems) = 1) =>
          /\ Opened'
          /\ Chest'.lootItems = <<>>
          /\ Chest'.rarity = Chest.rarity
     /\ (Opened /\ Chest.lootItems = <<>>) =>
          /\ ~NextChestStep => currentChest' = currentChest
          /\ MoveStep => outlined' = {} /\ cursor' = "default"
          /\ ClickStep => UNCHANGED pvars
    ]_vars

\* a click on the emptied chest
C10_Witness ==
  /\ lastEvent = "mousedown"
  /\ Opened
  /\ Chest.lootItems = <<>>
  /\ scene = {}

\* the highest rarity index among the items of a loot list, the index of
\* the default (Common) for the empty list
MaxRarityIndex(lootItems) ==
  IF lootItems = <<>> THEN RarityIndex(COMMON)
  ELSE LET S == {RarityIndex(lootItems[i].rarity) : i \in 1..Len(lootItems)}
       IN CHOOSE m \in S : \A k \in S : k <= m

\* C11 as stated: in every reachable state the rarity of the current chest
\* is the maximum rarity among the loot items it contains at that moment,
\* the default when it contains none.
C11_RarityIsMaxOfCurrentLoot ==
  HasChest => Chest.rarity = rarities[MaxRarityIndex(Chest.lootItems)]

\* C11, amended: in every reachable state the rarity of the current chest is
\* at least the rarity of every loot item it still contains, and it is the
\* maximum among them as long as no item has been picked up.
C11_RarityBoundsCurrentLoot ==
  HasChest =>
    /\ \A i \in 1..Len(Chest.lootItems) :
         RarityIndex(Chest.lootItems[i].rarity) <= RarityIndex(Chest.rarity)
    /\ Len(Chest.lootItems) = LootCount =>
         RarityIndex(Chest.rarity) = MaxRarityIndex(Chest.lootItems)

\* the rarest item has been picked up: the chest is rarer than what is left
C11_Witness ==
  /\ lastEvent = "mousedown"
  /\ Opened
  /\ Len(Chest.lootItems) = LootCount - 1
  /\ RarityIndex(Chest.rarity) > MaxRarityIndex(Chest.lootItems)

\* the types and rarities of a loot list, in list order
Contents(lootItems) ==
  [i \in 1..Len(lootItems) |-> <<lootItems[i].type, lootItems[i].rarity>>]

\* C12: the rarity of a chest is fixed when it is generated: no open, no
\* pickup, no pointer move and no frame changes it; the chest generated
\* with (Weapon, Rare), (Gold, Common), (Potion, Epic) is Epic and stays
\* Epic when the potion is picked up.
C12_RarityFixedAtGeneration ==
  [][/\ (HasChest /\ ~NextChestStep) =>
          HasChest' /\ Chest'.rarity = Chest.rarity
     /\ (NextChestStep /\ chestCount' # chestCount) =>
          /\ Contents(Chest'.lootItems) =
               <<<<WEAPON, "blue">>, <<GOLD, "white">>, <<POTION, "purple">>>>
          /\ Chest'.rarity = "purple"
    ]_vars

\* the Epic potion of the example chest has been picked up
C12_Witness ==
  /\ lastEvent = "mousedown"
  /\ Opened
  /\ Contents(Chest.lootItems) = <<<<WEAPON, "blue">>, <<GOLD, "white">>>>
  /\ Chest.rarity = "purple"

\* C13: no operation throws, whatever the loot pool and the model map hold,
\* and a nextChest() request that yields no chest leaves the current chest
\* and its loot list as they were.
C13_NoOperationThrows ==
  [][/\ thrown' = ""
     /\ (NextChestStep /\ chestCount' = chestCount) =>
          currentChest' = currentChest
    ]_vars

\* C14: with a completely empty loot pool, nextChest() fails with the
\* explicit condition "no loot available" and no chest becomes current.
C14_EmptyPoolFailsExplicitly ==
  [][(NextChestStep /\ models = {}) =>
       /\ thrown' = "no loot available"
       /\ ~HasChest'
    ]_vars

\* C15: while there is no current chest a pointer move and a click change
\* nothing: no outline, no cursor change, no chest created or opened, no
\* animation started.
C15_NoChestPointerNoOp ==
  [][(~HasChest /\ (MoveStep \/ ClickStep)) =>
       /\ outlined' = outlined
       /\ cursor' = cursor
       /\ currentChest' = currentChest
       /\ tweens' = tweens
       /\ UNCHANGED pvars
    ]_vars

\* a click made before the first chest, after the pointer has moved
C15_Witness ==
  /\ lastEvent = "mousedown"
  /\ ~HasChest
  /\ pointer = "left"
  /\ cursor = ""
  /\ tweens = <<>>

\* C16: an accepted nextChest() starts its drop animation only when no
\* earlier drop of the chest and no lid-open animation is still in flight.
C16_DropStartsWithNoAnimationInFlight ==
  [][(NextChestStep /\ chestCount' # chestCount) =>
       /\ ~DropInFlight
       /\ ~OpenInFlight
    ]_vars

\* C17: the textures applied to the clones of a new chest change the
\* texture of no loot item generated earlier and of no model template of
\* the asset map (the template of a name shows the material of that name).
C17_ClonesAreIndependent ==
  [][(NextChestStep /\ chestCount' # chestCount) =>
       /\ \A id \in Allocated :
            materialMap'[objs[id].name] = materialMap[objs[id].name]
       /\ \A n \in LootNames : materialMap'[n] = materialMap[n]
    ]_vars

\* C18: the hit-test run by a click gives what a ray through the pointer
\* position of the most recent pointer event gives, also when that event
\* was dispatched while there was no chest.
C18_ClickUsesLatestPointer ==
  [][(ClickStep /\ HasChest) =>
       IF ~Chest.opened
       THEN IntersectsChest(mouseNdc) = IntersectsChest(pointer)
       ELSE FirstHitIndex(mouseNdc, Chest.lootItems)
              = FirstHitIndex(pointer, Chest.lootItems)
    ]_vars

\* a click that opens the chest
OpenStep == Unopened /\ Opened'

\* C19: the step that opens the chest sets its three loot objects to scale
\* 0, adds them to the scene and starts, all at once, the lid animation
\* (500 ms), the three path animations (500 ms in total) and the three
\* scale animations (250 ms); so a loot object that has reached its
\* destination is at full scale.
C19_RevealStartsTogether ==
  [][/\ OpenStep =>
          LET ids == ObjectSet(Chest.lootItems)
          IN /\ Cardinality(ids) = LootCount
             /\ \A id \in ids : objs'[id].scale = 0 /\ id \in scene'
             /\ Len(tweens') = Len(tweens) + 1 + 2 * LootCount
             /\ StartedTweens =
                  {[kind |-> "open", target |-> ChestObj, seg |-> 0,
                    from |-> lidRotation, t |-> 0]}
                  \cup {[kind |-> "path", target |-> id, seg |-> 0,
                         from |-> 0, t |-> 0] : id \in ids}
                  \cup {[kind |-> "scale", target |-> id, seg |-> 0,
                         from |-> 0, t |-> 0] : id \in ids}
             /\ openDuration = 500 * UnitsPerMs
             /\ PathPoints * stepDuration = openDuration
             /\ 2 * scaleDuration = openDuration
     /\ \A id \in DOMAIN objs' :
          objs'[id].pos >= lootRevealDuration => objs'[id].scale = fullScale
    ]_vars

\* mid-reveal: a loot object is at full scale and still on its way while
\* the lid animation runs
C19_Witness ==
  /\ Opened
  /\ OpenInFlight
  /\ \E id \in ObjectSet(Chest.lootItems) :
       /\ objs[id].scale = fullScale
       /\ objs[id].pos > 0
       /\ objs[id].pos < lootRevealDuration

FrameStep == lastEvent' = "frame"

\* the waypoint tweens of the path of a loot object that are registered
PathTweens(tws, id) ==
  {i \in 1..Len(tws) : tws[i].kind = "path" /\ tws[i].target = id}

TextureNames == {"d1-atlas", "d2-atlas", "d3-atlas", "d4-atlas"}

\* the loaded models of a loot type
LoadedOf(type) == SeqRange(lootMap[type]) \cap models

\* C21: each of the three slots of a generated chest has a type among the
\* four loot types, a model name among the loaded models of that type
\* ("coins" if the type has none), a rarity among the five tiers and a
\* texture among d1..d4-atlas, d1-atlas for gold; and for every slot every
\* type, every loaded model of a type and every rarity is generated by some
\* draw.
C21_SlotsDrawnFromPool ==
  /\ Unopened =>
       /\ Len(Chest.lootItems) = LootCount
       /\ \A i \in 1..LootCount :
            LET item == Chest.lootItems[i]
                obj  == objs[item.object]
            IN /\ item.type \in {WEAPON, POTION, SHIELD, GOLD}
               /\ IF LoadedOf(item.type) # {}
                  THEN obj.name \in LoadedOf(item.type)
                  ELSE obj.name = "coins"
               /\ item.rarity \in SeqRange(rarities)
               /\ obj.tex \in TextureNames
               /\ item.type = GOLD => obj.tex = "d1-atlas"
  /\ ~HasChest =>
       \A i \in 1..LootCount :
         /\ \A ty \in {WEAPON, POTION, SHIELD, GOLD} :
              \A n \in (IF LoadedOf(ty) # {} THEN LoadedOf(ty) ELSE {"coins"}) :
                \E rnd \in SlotDraws :
                  randomTypes(rnd)[i] = ty /\ LootName(rnd, i) = n
         /\ \A r \in SeqRange(rarities) :
              \E rnd \in SlotDraws : GenLootItems(rnd, 0)[i].rarity = r

\* a potion slot that fell back to the coins model, with a texture other
\* than the one of gold, next to a gold slot
C21_Witness ==
  /\ Unopened
  /\ \E i, j \in 1..LootCount :
       /\ Chest.lootItems[i].type = POTION
       /\ objs[Chest.lootItems[i].object].name = "coins"
       /\ objs[Chest.lootItems[i].object].tex # "d1-atlas"
       /\ Chest.lootItems[j].type = GOLD
       /\ objs[Chest.lootItems[j].object].tex = "d1-atlas"

Scaled(v) == <<Number(PointScale * v[1]), Number(PointScale * v[2])>>

\* C23: getCurvePathTo returns PathPoints points, the first is `from`, the
\* last is `to`, the middle one is the mid point between them raised by 2,
\* and no coordinate is NaN, also when from = to.
C23_CurveThroughRaisedMidPoint ==
  curve # <<>> =>
    LET c == curve[1]
    IN /\ Len(c.points) = PathPoints
       /\ c.points[1] = Scaled(c.from)
       /\ c.points[PathPoints] = Scaled(c.to)
       /\ c.points[PathDivisions \div 2 + 1] =
            Scaled(<<(c.from[1] + c.to[1]) \div 2,
                     (c.from[2] + c.to[2]) \div 2 + midRaise>>)
       /\ \A i \in 1..Len(c.points) : \A k \in 1..2 : ~c.points[i][k].nan

\* a curve from a point back to itself, rising on the way
C23_Witness ==
  /\ curve # <<>>
  /\ curve[1].from = curve[1].to
  /\ \E i \in 1..PathPoints : curve[1].points[i][2].v > PointScale * curve[1].from[2]

\* C24: over an opened chest with loot left, at every pointer position
\* that hits loot, the item a pointer move outlines (the nearest hit) is
\* the item a click picks up (the first hit in list order).
C24_HoverAndClickAgree ==
  (Opened /\ Chest.lootItems # <<>>) =>
    \A e \in Ndc :
      LootHits(e, Chest.lootItems) # {} =>
        NearestHit(LootHits(e, Chest.lootItems))
          = Chest.lootItems[FirstHitIndex(e, Chest.lootItems)].object

\* C25: the loot objects in the scene are those of the loot list of the
\* current chest when it is opened, none when there is no chest or it is
\* unopened; no object of a replaced chest and no picked-up object is in
\* the scene.
C25_SceneHoldsCurrentLoot ==
  /\ scene = IF Opened THEN ObjectSet(Chest.lootItems) ELSE {}
  /\ \A id \in Allocated :
       id \in scene => (HasChest /\ id \in ObjectSet(Chest.lootItems))

\* the second chest is open with one of its items picked up, the loot left
\* in the first chest is gone from the scene
C25_Witness ==
  /\ chestCount = 2
  /\ Opened
  /\ Len(Chest.lootItems) = LootCount - 1
  /\ scene = ObjectSet(Chest.lootItems)
  /\ lastEvent = "mousedown"

\* C26: an outlined object is an interactive target, the chest while the
\* current chest is unopened or a loot item of the current loot list, and
\* the cursor is "pointer" only while such an object is outlined.
C26_OutlinedIsInteractive ==
  /\ \A o \in outlined :
       \/ o = ChestObj /\ Unopened
       \/ Opened /\ o \in ObjectSet(Chest.lootItems)
  /\ cursor = "pointer" => outlined # {}

\* C27: while the current chest is unopened its lid is closed: the lid
\* rotation is 0 and no lid-open animation is registered.
C27_UnopenedLidClosed ==
  Unopened => (lidRotation = 0 /\ ~OpenInFlight)

====
